---- MODULE Spec2Model ----
(***************************************************************************)
(* Bolt capacity calculator (AS/NZS 5100.6:2017).                          *)
(*                                                                         *)
(* The calculation engine (utils/calculations) is a set of pure functions  *)
(* over JavaScript Numbers, i.e. IEEE-754 binary64 values.  They are       *)
(* modelled here bit-exactly: a Number is a sign, a 53-bit mantissa and a  *)
(* binary exponent, and every arithmetic operator rounds its exact result  *)
(* to nearest, ties to even, as the language does.  The mantissa does not  *)
(* fit the model checker's integers, so it is kept as a little-endian      *)
(* sequence of 15-bit limbs.  Subnormals, infinities and overflow are not  *)
(* modelled: no value of the inputs considered comes near them.            *)
(*                                                                         *)
(* The React component BoltCalculator is modelled as a state machine over  *)
(* its useState cells, with one step per event handler and one per effect  *)
(* run.                                                                    *)
(***************************************************************************)
EXTENDS Integers, Sequences, FiniteSets, TLC

(***************************************************************************)
(* Natural numbers of arbitrary size: little-endian limbs, base 2^15,      *)
(* no leading (high) zero limb; zero is the empty sequence.                *)
(***************************************************************************)
LimbBits == 15

RECURSIVE Pow2(_)
Pow2(n) == IF n = 0 THEN 1 ELSE 2 * Pow2(n - 1)

Base == Pow2(LimbBits)

RECURSIVE BNorm(_)
BNorm(a) ==
  IF a = <<>> THEN a
  ELSE IF a[Len(a)] = 0 THEN BNorm(SubSeq(a, 1, Len(a) - 1))
  ELSE a

RECURSIVE BFromInt(_)
BFromInt(n) == IF n = 0 THEN <<>> ELSE <<n % Base>> \o BFromInt(n \div Base)

RECURSIVE BAddC(_, _, _)
BAddC(a, b, c) ==
  IF a = <<>> /\ b = <<>> THEN (IF c = 0 THEN <<>> ELSE <<c>>)
  ELSE LET x  == (IF a = <<>> THEN 0 ELSE Head(a))
                 + (IF b = <<>> THEN 0 ELSE Head(b)) + c
           ta == IF a = <<>> THEN a ELSE Tail(a)
           tb == IF b = <<>> THEN b ELSE Tail(b)
       IN  <<x % Base>> \o BAddC(ta, tb, x \div Base)

BAdd(a, b) == BAddC(a, b, 0)

\* a - b for a >= b
RECURSIVE BSubC(_, _, _)
BSubC(a, b, c) ==
  IF a = <<>> THEN <<>>
  ELSE LET x  == Head(a) - (IF b = <<>> THEN 0 ELSE Head(b)) - c
           tb == IF b = <<>> THEN b ELSE Tail(b)
       IN  IF x < 0 THEN <<x + Base>> \o BSubC(Tail(a), tb, 1)
           ELSE <<x>> \o BSubC(Tail(a), tb, 0)

BSub(a, b) == BNorm(BSubC(a, b, 0))

\* -1, 0, 1 as a < b, a = b, a > b
RECURSIVE BCmpAt(_, _, _)
BCmpAt(a, b, i) ==
  IF i = 0 THEN 0
  ELSE IF a[i] < b[i] THEN -1
  ELSE IF a[i] > b[i] THEN 1
  ELSE BCmpAt(a, b, i - 1)

BCmp(a, b) ==
  IF Len(a) < Len(b) THEN -1
  ELSE IF Len(a) > Len(b) THEN 1
  ELSE BCmpAt(a, b, Len(a))

\* a * k + c for one limb k
RECURSIVE BMulSmallC(_, _, _)
BMulSmallC(a, k, c) ==
  IF a = <<>> THEN (IF c = 0 THEN <<>> ELSE <<c>>)
  ELSE LET x == Head(a) * k + c
       IN  <<x % Base>> \o BMulSmallC(Tail(a), k, x \div Base)

BMulSmall(a, k) == BNorm(BMulSmallC(a, k, 0))

RECURSIVE BMul(_, _)
BMul(a, b) ==
  IF a = <<>> \/ b = <<>> THEN <<>>
  ELSE LET rest == BMul(a, Tail(b))
       IN  BAdd(BMulSmall(a, Head(b)),
                IF rest = <<>> THEN rest ELSE <<0>> \o rest)

\* quotient and remainder of a by one limb k > 0
RECURSIVE BDivModSmall(_, _)
BDivModSmall(a, k) ==
  IF a = <<>> THEN [q |-> <<>>, r |-> 0]
  ELSE LET hi == BDivModSmall(Tail(a), k)
           x  == hi.r * Base + Head(a)
       IN  [q |-> <<x \div k>> \o hi.q, r |-> x % k]

Zeros(n) == [i \in 1..n |-> 0]

BShl(a, n) ==
  IF a = <<>> THEN a
  ELSE Zeros(n \div LimbBits) \o BMulSmall(a, Pow2(n % LimbBits))

BShr(a, n) ==
  IF Len(a) <= n \div LimbBits THEN <<>>
  ELSE BNorm(BDivModSmall(SubSeq(a, n \div LimbBits + 1, Len(a)),
                          Pow2(n % LimbBits)).q)

RECURSIVE BitLenInt(_)
BitLenInt(n) == IF n = 0 THEN 0 ELSE 1 + BitLenInt(n \div 2)

BBitLen(a) ==
  IF a = <<>> THEN 0 ELSE (Len(a) - 1) * LimbBits + BitLenInt(a[Len(a)])

BBit(a, i) ==
  IF i \div LimbBits + 1 > Len(a) THEN 0
  ELSE (a[i \div LimbBits + 1] \div Pow2(i % LimbBits)) % 2

\* number of low zero bits of a > 0, counted from bit i
RECURSIVE BTrailingZeros(_, _)
BTrailingZeros(a, i) ==
  IF i % LimbBits = 0 /\ a[i \div LimbBits + 1] = 0
  THEN BTrailingZeros(a, i + LimbBits)
  ELSE IF BBit(a, i) = 1 THEN i
  ELSE BTrailingZeros(a, i + 1)

\* whether a has a one among its n low bits
BLowBitsSet(a, n) ==
  \/ \E i \in 1..(n \div LimbBits) : i <= Len(a) /\ a[i] # 0
  \/ /\ n \div LimbBits + 1 <= Len(a)
     /\ a[n \div LimbBits + 1] % Pow2(n % LimbBits) # 0

\* one step of binary long division: bit i of a is brought down
BDivStep(a, d, i, st) ==
  LET r2 == BAdd(BMulSmall(st.r, 2), IF BBit(a, i) = 1 THEN <<1>> ELSE <<>>)
      q2 == BMulSmall(st.q, 2)
  IN  IF BCmp(r2, d) >= 0
      THEN [q |-> BAdd(q2, <<1>>), r |-> BSub(r2, d)]
      ELSE [q |-> q2, r |-> r2]

\* quotient and remainder of a by any d > 0, one bit of a at a time, bits
\* hi down to lo, from the partial quotient and remainder st
RECURSIVE BDivModBits(_, _, _, _, _)
BDivModBits(a, d, hi, lo, st) ==
  IF hi < lo THEN st
  ELSE IF hi = lo THEN BDivStep(a, d, hi, st)
  ELSE LET mid == (hi + lo + 1) \div 2
           up  == BDivModBits(a, d, hi, mid, st)
       IN  IF Len(up.q) >= 0 THEN BDivModBits(a, d, mid - 1, lo, up) ELSE up

\* The quotient of a by d > 0 and whether the division leaves a remainder:
\* the low zero bits of d are shifted out first, and a divisor that then
\* fits a limb is divided by limb.
BDivMod(a, d) ==
  LET t  == BTrailingZeros(d, 0)
      dd == BShr(d, t)
      hi == BShr(a, t)
  IN  IF Len(dd) = 1
      THEN LET s == BDivModSmall(hi, dd[1])
           IN  [q |-> BNorm(s.q), inexact |-> s.r # 0 \/ BLowBitsSet(a, t)]
      ELSE LET s == BDivModBits(hi, dd, BBitLen(hi) - 1, 0,
                                [q |-> <<>>, r |-> <<>>])
           IN  [q |-> s.q, inexact |-> s.r # <<>> \/ BLowBitsSet(a, t)]

\* a number written in decimal, four digits to the group, high group first
RECURSIVE BFromDec(_)
BFromDec(g) ==
  IF g = <<>> THEN <<>>
  ELSE BAdd(BMulSmall(BFromDec(SubSeq(g, 1, Len(g) - 1)), 10000),
            BFromInt(g[Len(g)]))

(***************************************************************************)
(* JavaScript Numbers.  A finite Number is [k |-> "num", s, m, e] with     *)
(* value (-1)^s * m * 2^e, where m = 0 (and e = 0) or 2^52 <= m < 2^53.    *)
(* NaN is what arithmetic on undefined yields.                             *)
(***************************************************************************)
MantBits == 53

Undefined == [k |-> "undefined"]

NaN == [k |-> "NaN"]

FZero(s) == [k |-> "num", s |-> s, m |-> <<>>, e |-> 0]

\* The Number nearest to (-1)^s * (M + f) * 2^e, where 0 <= f < 1 and
\* sticky says f > 0: round to nearest, ties to even.
FRound(s, M, e, sticky) ==
  IF M = <<>> THEN FZero(s)
  ELSE LET bl == BBitLen(M)
       IN  IF bl <= MantBits
           THEN [k |-> "num", s |-> s, m |-> BShl(M, MantBits - bl),
                 e |-> e - (MantBits - bl)]
           ELSE LET sh   == bl - MantBits
                    q    == BShr(M, sh)
                    half == BBit(M, sh - 1) = 1
                    rest == sticky \/ BLowBitsSet(M, sh - 1)
                    up   == half /\ (rest \/ q[1] % 2 = 1)
                    q2   == IF up THEN BAdd(q, <<1>>) ELSE q
                IN  IF BBitLen(q2) > MantBits
                    THEN [k |-> "num", s |-> s, m |-> BShr(q2, 1), e |-> e + sh + 1]
                    ELSE [k |-> "num", s |-> s, m |-> q2, e |-> e + sh]

\* an integer as a Number (exact below 2^31)
Num(n) == FRound(IF n < 0 THEN 1 ELSE 0, BFromInt(IF n < 0 THEN -n ELSE n), 0, FALSE)

\* ToNumber: undefined converts to NaN
ToNumber(v) == IF v.k = "num" THEN v ELSE NaN

\* the Number nearest to the quotient N / D * 2^e of two naturals, D > 0
FRoundQuot(s, N, D, e) ==
  IF N = <<>> THEN FZero(s)
  ELSE LET need == MantBits + 2 + BBitLen(D) - BBitLen(N)
           sh   == IF need > 0 THEN need ELSE 0
           qr   == BDivMod(BShl(N, sh), D)
       IN  FRound(s, qr.q, e - sh, qr.inexact)

FMulNum(x, y) == FRound((x.s + y.s) % 2, BMul(x.m, y.m), x.e + y.e, FALSE)

FMul(a, b) ==
  LET x == ToNumber(a)
      y == ToNumber(b)
  IN  IF x.k = "NaN" \/ y.k = "NaN" THEN NaN ELSE FMulNum(x, y)

FDivNum(x, y) == FRoundQuot((x.s + y.s) % 2, x.m, y.m, x.e - y.e)

\* division by zero is not modelled: every divisor of the program is a
\* non-zero literal
FDiv(a, b) ==
  LET x == ToNumber(a)
      y == ToNumber(b)
  IN  IF x.k = "NaN" \/ y.k = "NaN" THEN NaN ELSE FDivNum(x, y)

FNeg(x) == IF x.k = "num" THEN [x EXCEPT !.s = 1 - x.s] ELSE x

FAddNum(x, y) ==
  IF x.m = <<>> THEN (IF y.m = <<>> THEN FZero(IF x.s = 1 /\ y.s = 1 THEN 1 ELSE 0) ELSE y)
  ELSE IF y.m = <<>> THEN x
  ELSE LET e  == IF x.e < y.e THEN x.e ELSE y.e
           mx == BShl(x.m, x.e - e)
           my == BShl(y.m, y.e - e)
           c  == BCmp(mx, my)
       IN  IF x.s = y.s THEN FRound(x.s, BAdd(mx, my), e, FALSE)
           ELSE IF c = 0 THEN FZero(0)
           ELSE IF c > 0 THEN FRound(x.s, BSub(mx, my), e, FALSE)
           ELSE FRound(y.s, BSub(my, mx), e, FALSE)

FAdd(a, b) ==
  LET x == ToNumber(a)
      y == ToNumber(b)
  IN  IF x.k = "NaN" \/ y.k = "NaN" THEN NaN ELSE FAddNum(x, y)

FSub(a, b) == FAdd(a, FNeg(ToNumber(b)))

\* -1, 0, 1 as x < y, x = y, x > y, for finite Numbers
FCmpMag(x, y) ==
  IF x.m = <<>> THEN (IF y.m = <<>> THEN 0 ELSE -1)
  ELSE IF y.m = <<>> THEN 1
  ELSE IF x.e < y.e THEN -1
  ELSE IF x.e > y.e THEN 1
  ELSE BCmp(x.m, y.m)

FCmp(x, y) ==
  IF x.m = <<>> /\ y.m = <<>> THEN 0
  ELSE IF x.s = 0 /\ y.s = 1 THEN 1
  ELSE IF x.s = 1 /\ y.s = 0 THEN -1
  ELSE IF x.s = 0 THEN FCmpMag(x, y)
  ELSE FCmpMag(y, x)

\* the relational operators: a comparison with NaN is false
FLt(a, b) ==
  LET x == ToNumber(a)
      y == ToNumber(b)
  IN  x.k = "num" /\ y.k = "num" /\ FCmp(x, y) < 0

FGt(a, b) == FLt(b, a)

\* a decimal literal num/den (den a power of ten): the nearest Number
Lit(num, den) == FRoundQuot(0, BFromInt(num), BFromInt(den), 0)

\* Math.PI, the Number nearest to pi: 3.141592653589793, which is
\* 7074237752028440 * 2^-51 (0x400921FB54442D18)
MathPI == [k |-> "num", s |-> 0, m |-> <<11544, 10376, 2029, 201>>, e |-> -51]

\* the same Number, from its decimal literal
MathPILiteral == FRoundQuot(0, BFromDec(<<3141, 5926, 5358, 9793>>),
                               BFromDec(<<1000, 0, 0, 0>>), 0)

\* Math.pow(x, 2): the exact square, rounded once
MathPow2(x) == FMul(x, x)

\* Math.min of two finite Numbers
MathMin(a, b) == IF FLt(b, a) THEN b ELSE a

(***************************************************************************)
(* utils/calculations                                                      *)
(***************************************************************************)

\* a call returns a value or throws
Return(v) == [k |-> "return", v |-> v]

Throw(err) == [k |-> "throw", error |-> err]

\* BOLT_PROPERTIES: an object literal with two own properties
BoltGrades == {"4.6", "8.8"}

\* The literal's prototype is Object.prototype, so a property read with one
\* of these names finds an inherited member (a function or an object), on
\* which no property fuf exists.
ObjectPrototypeKeys == {"constructor", "toString", "hasOwnProperty", "valueOf"}

\* BOLT_PROPERTIES[grade]
BOLT_PROPERTIES(grade) ==
  IF grade = "4.6" THEN [k |-> "object", fuf |-> Num(400)]
  ELSE IF grade = "8.8" THEN [k |-> "object", fuf |-> Num(830)]
  ELSE IF grade \in ObjectPrototypeKeys THEN [k |-> "object", fuf |-> Undefined]
  ELSE Undefined

\* const { fuf } = BOLT_PROPERTIES[grade]: destructuring undefined throws a
\* TypeError; a property the object lacks reads as undefined
DestructureFuf(grade) ==
  LET p == BOLT_PROPERTIES(grade)
  IN  IF p.k = "undefined" THEN Throw("TypeError") ELSE Return(p.fuf)

PHI == Lit(8, 10)

\* the areas without the thread deduction: Ac taken over the nominal diameter
calculateAreasNominal(diameter) ==
  [Ac |-> FDiv(FMul(MathPI, MathPow2(diameter)), Num(4)),
   Ao |-> FDiv(FMul(MathPI, MathPow2(diameter)), Num(4))]

calculateAreas(diameter) ==
  [Ac |-> FDiv(FMul(MathPI, MathPow2(FSub(diameter, Num(1)))), Num(4)),
   Ao |-> FDiv(FMul(MathPI, MathPow2(diameter)), Num(4))]

\* kr with the reduction ending at 1000 instead of 1300
calculateKrBreakAt1000(length) ==
  IF FLt(length, Num(300)) THEN Num(1)
  ELSE IF FGt(length, Num(1000)) THEN Lit(75, 100)
  ELSE FSub(Lit(1075, 1000), FDiv(length, Num(4000)))

\* kr with the sign of the length term flipped
calculateKrRising(length) ==
  IF FLt(length, Num(300)) THEN Num(1)
  ELSE IF FGt(length, Num(1300)) THEN Lit(75, 100)
  ELSE FAdd(Lit(1075, 1000), FDiv(length, Num(4000)))

calculateKr(length) ==
  IF FLt(length, Num(300)) THEN Num(1)
  ELSE IF FGt(length, Num(1300)) THEN Lit(75, 100)
  ELSE FSub(Lit(1075, 1000), FDiv(length, Num(4000)))

\* Vf with the two areas exchanged between the kinds of plane
ShearVfAreasSwapped(fuf, diameter, threadedLength, threadedShearPlanes, unthreadedShearPlanes) ==
  LET areas == calculateAreas(diameter)
      kr    == calculateKr(threadedLength)
  IN  FMul(FMul(FMul(Lit(62, 100), fuf), kr),
           FAdd(FMul(threadedShearPlanes, areas.Ao),
                FMul(unthreadedShearPlanes, areas.Ac)))

\* Vf with the unthreaded planes subtracted
ShearVfPlanesSubtracted(fuf, diameter, threadedLength, threadedShearPlanes, unthreadedShearPlanes) ==
  LET areas == calculateAreas(diameter)
      kr    == calculateKr(threadedLength)
  IN  FMul(FMul(FMul(Lit(62, 100), fuf), kr),
           FSub(FMul(threadedShearPlanes, areas.Ac),
                FMul(unthreadedShearPlanes, areas.Ao)))

\* Equation 12.5.3.1(2): Vf in N
ShearVf(fuf, diameter, threadedLength, threadedShearPlanes, unthreadedShearPlanes) ==
  LET areas == calculateAreas(diameter)
      kr    == calculateKr(threadedLength)
  IN  FMul(FMul(FMul(Lit(62, 100), fuf), kr),
           FAdd(FMul(threadedShearPlanes, areas.Ac),
                FMul(unthreadedShearPlanes, areas.Ao)))

calculateBoltShearCapacity(grade, diameter, threadedLength, threadedShearPlanes, unthreadedShearPlanes) ==
  LET d == DestructureFuf(grade)
  IN  IF d.k = "throw" THEN d
      ELSE Return(FDiv(FMul(PHI, ShearVf(d.v, diameter, threadedLength,
                                         threadedShearPlanes,
                                         unthreadedShearPlanes)),
                       Num(1000)))

\* Ntf over the gross area Ao
TensileNtfGrossArea(fuf, diameter) == FMul(calculateAreas(diameter).Ao, fuf)

\* Equation 12.5.3.2(2): Ntf in N
TensileNtf(fuf, diameter) == FMul(calculateAreas(diameter).Ac, fuf)

\* the tensile capacity left in N
calculateBoltTensileCapacityInNewtons(grade, diameter) ==
  LET d == DestructureFuf(grade)
  IN  IF d.k = "throw" THEN d
      ELSE Return(FMul(PHI, FMul(calculateAreas(diameter).Ac, d.v)))

calculateBoltTensileCapacity(grade, diameter) ==
  LET d == DestructureFuf(grade)
  IN  IF d.k = "throw" THEN d
      ELSE Return(FDiv(FMul(PHI, TensileNtf(d.v, diameter)), Num(1000)))

(***************************************************************************)
(* components/CalculationDetails: the design requirements it derives from  *)
(* its diameter prop                                                       *)
(***************************************************************************)
\* the requirements with the maximum pitch left uncapped
CalculationDetailsUncapped(props) ==
  [minPitch                     |-> FMul(Lit(25, 10), props.diameter),
   maxPitch                     |-> FMul(Num(32), props.diameter),
   minEdgeDistanceSheared       |-> FMul(Lit(175, 100), props.diameter),
   minEdgeDistanceRolled        |-> FMul(Lit(15, 10), props.diameter),
   minEdgeDistanceRolledSection |-> FMul(Lit(125, 100), props.diameter)]

CalculationDetails(props) ==
  [minPitch                     |-> FMul(Lit(25, 10), props.diameter),
   maxPitch                     |-> MathMin(Num(200), FMul(Num(32), props.diameter)),
   minEdgeDistanceSheared       |-> FMul(Lit(175, 100), props.diameter),
   minEdgeDistanceRolled        |-> FMul(Lit(15, 10), props.diameter),
   minEdgeDistanceRolledSection |-> FMul(Lit(125, 100), props.diameter)]

(***************************************************************************)
(* State.  args, call and ret are a caller of the calculation engine: the  *)
(* inputs it holds, the function it called last and what the call gave.    *)
(* firstTensile is the first tensile evaluation of that caller: the inputs *)
(* it held then and what the call gave.  The other variables are the state *)
(* cells of BoltCalculator; pc is where the component is: "effect" when a  *)
(* render has committed and its effect is yet to run, "idle" when it waits *)
(* for an event.                                                           *)
(***************************************************************************)
VARIABLES args, call, ret, firstTensile,
          inputs, results, errors, isCalculating,
          savedCalculations, showSavedResults, pc

callerVars == <<args, call, ret, firstTensile>>

componentVars == <<inputs, results, errors, isCalculating,
                   savedCalculations, showSavedResults, pc>>

vars == <<args, call, ret, firstTensile,
          inputs, results, errors, isCalculating,
          savedCalculations, showSavedResults, pc>>

\* most shear planes of either kind a caller passes
MaxPlanes == 2

\* most entries saved in one run of the component
MaxSaved == 1

Grades == BoltGrades \cup {"10.9", "constructor"}

Diameters == {0, 1, 2, 6, 7, 20}

Lengths == {0, 300, 800, 1300, 1301}

\* lengths around the two break points of kr, and far from them
LengthSweep ==
  {-1000, -1, 1, 150, 298, 299, 301, 302, 303, 500, 799, 801, 1000,
   1297, 1298, 1299, 1302, 2000, 100000}

AllLengths == Lengths \cup LengthSweep

Planes == 0..MaxPlanes

ArgSet ==
  [grade : Grades, diameter : Diameters, threadedLength : Lengths,
   shearPlanes : Planes, unthreadedShearPlanes : Planes]
  \cup
  [grade : {"8.8"}, diameter : {20}, threadedLength : LengthSweep,
   shearPlanes : {1}, unthreadedShearPlanes : {0}]

\* BoltCalculator's initial state cells
InitialInputs ==
  [boltGrade |-> "8.8", diameter |-> 20, threadedLength |-> 0,
   shearPlanes |-> 1, unthreadedShearPlanes |-> 0]

InitialResults == [shearCapacity |-> Num(0), tensileCapacity |-> Num(0)]

ComponentInit ==
  /\ inputs = InitialInputs
  /\ results = InitialResults
  /\ errors = {}
  /\ isCalculating = FALSE
  /\ savedCalculations = <<>>
  /\ showSavedResults = FALSE
  /\ pc = "effect"

CallerInit(S) ==
  /\ args \in S
  /\ call = "none"
  /\ ret = Undefined
  /\ firstTensile = Undefined

(***************************************************************************)
(* The caller: one action per function of the engine, applied to args.     *)
(***************************************************************************)
CallLookup ==
  /\ call = "none"
  /\ call' = "BOLT_PROPERTIES"
  /\ ret' = DestructureFuf(args.grade)
  /\ UNCHANGED <<args, firstTensile>>
  /\ UNCHANGED componentVars

CallAreas ==
  /\ call = "none"
  /\ call' = "calculateAreas"
  /\ ret' = Return(calculateAreas(Num(args.diameter)))
  /\ UNCHANGED <<args, firstTensile>>
  /\ UNCHANGED componentVars

CallKr ==
  /\ call = "none"
  /\ call' = "calculateKr"
  /\ ret' = Return(calculateKr(Num(args.threadedLength)))
  /\ UNCHANGED <<args, firstTensile>>
  /\ UNCHANGED componentVars

CallShear ==
  /\ call = "none"
  /\ call' = "calculateBoltShearCapacity"
  /\ ret' = calculateBoltShearCapacity(args.grade, Num(args.diameter),
                                       Num(args.threadedLength),
                                       Num(args.shearPlanes),
                                       Num(args.unthreadedShearPlanes))
  /\ UNCHANGED <<args, firstTensile>>
  /\ UNCHANGED componentVars

CallTensile ==
  /\ call = "none"
  /\ call' = "calculateBoltTensileCapacity"
  /\ ret' = calculateBoltTensileCapacity(args.grade, Num(args.diameter))
  /\ firstTensile' = IF firstTensile = Undefined
                     THEN [k |-> "call", args |-> args, out |-> ret']
                     ELSE firstTensile
  /\ UNCHANGED args
  /\ UNCHANGED componentVars

\* <CalculationDetails ... /> as BoltCalculator renders it: the fuf prop
\* reads .fuf of BOLT_PROPERTIES[boltGrade], which throws on undefined
RenderCalculationDetails(in) ==
  LET p == BOLT_PROPERTIES(in.boltGrade)
  IN  IF p.k = "undefined" THEN Throw("TypeError")
      ELSE Return(CalculationDetails(
             [boltGrade      |-> in.boltGrade,
              diameter       |-> Num(in.diameter),
              threadedLength |-> Num(in.threadedLength),
              minorDiameter  |-> FSub(Num(in.diameter), Num(1)),
              kr             |-> calculateKr(Num(in.threadedLength)),
              fuf            |-> p.fuf]))

CallDetails ==
  /\ call = "none"
  /\ call' = "CalculationDetails"
  /\ ret' = RenderCalculationDetails(
              [boltGrade |-> args.grade, diameter |-> args.diameter,
               threadedLength |-> args.threadedLength])
  /\ UNCHANGED <<args, firstTensile>>
  /\ UNCHANGED componentVars

Init == CallerInit(ArgSet) /\ ComponentInit

Next ==
  \/ CallLookup
  \/ CallAreas
  \/ CallKr
  \/ CallShear
  \/ CallTensile
  \/ CallDetails

Spec == Init /\ [][Next]_vars

(***************************************************************************)
(* A caller that keeps grade and diameter and changes the other inputs     *)
(* between tensile evaluations, as BoltCalculator does when a field other  *)
(* than grade or diameter is edited.                                       *)
(***************************************************************************)
VaryDiameters == {1, 2, 20}

VaryLengths == {0, 800, 1301}

VaryArgSet ==
  [grade : BoltGrades, diameter : VaryDiameters, threadedLength : {0},
   shearPlanes : {1}, unthreadedShearPlanes : {0}]

SetThreadedLength(L) ==
  /\ L # args.threadedLength
  /\ args' = [args EXCEPT !.threadedLength = L]
  /\ call' = "none"
  /\ ret' = Undefined
  /\ UNCHANGED firstTensile
  /\ UNCHANGED componentVars

SetShearPlanes(nt, nu) ==
  /\ <<nt, nu>> # <<args.shearPlanes, args.unthreadedShearPlanes>>
  /\ args' = [args EXCEPT !.shearPlanes = nt, !.unthreadedShearPlanes = nu]
  /\ call' = "none"
  /\ ret' = Undefined
  /\ UNCHANGED firstTensile
  /\ UNCHANGED componentVars

VaryInit == CallerInit(VaryArgSet) /\ ComponentInit

VaryNext ==
  \/ \E L \in VaryLengths : SetThreadedLength(L)
  \/ \E nt \in Planes, nu \in Planes : SetShearPlanes(nt, nu)
  \/ CallTensile

SpecVary == VaryInit /\ [][VaryNext]_vars

(***************************************************************************)
(* components/BoltCalculator                                               *)
(***************************************************************************)
\* what the form's fields are set to: the two options of the grade select,
\* and for the number fields a few values, 0 being Number("") of a cleared
\* field
FieldValues ==
  [boltGrade             |-> {"4.6", "8.8"},
   diameter              |-> {0, 20, 24},
   threadedLength        |-> {-1, 0, 400},
   shearPlanes           |-> {-1, 1},
   unthreadedShearPlanes |-> {-1, 0}]

FieldNames == DOMAIN FieldValues

\* validateInputs: the errors it hands to setErrors, as the set of their keys
validateInputs(in) ==
  {n \in {"diameter"} : in.diameter <= 0}
  \cup {n \in {"threadedLength"} : in.threadedLength < 0}
  \cup {n \in {"shearPlanes"} : in.shearPlanes < 0}
  \cup {n \in {"unthreadedShearPlanes"} : in.unthreadedShearPlanes < 0}

\* calculateResults: what results is after it, given the inputs, errors and
\* results of the render whose closure it runs in
calculateResults(in, errs, res) ==
  IF errs # {} THEN res
  ELSE LET shearCapacity ==
             calculateBoltShearCapacity(in.boltGrade, Num(in.diameter),
                                        Num(in.threadedLength),
                                        Num(in.shearPlanes),
                                        Num(in.unthreadedShearPlanes))
           tensileCapacity ==
             calculateBoltTensileCapacity(in.boltGrade, Num(in.diameter))
       IN  IF shearCapacity.k = "throw" \/ tensileCapacity.k = "throw"
           THEN res
           ELSE [shearCapacity   |-> shearCapacity.v,
                 tensileCapacity |-> tensileCapacity.v]

\* useEffect(() => { validateInputs(); calculateResults(); }, [inputs]):
\* both run in the closure of the render just committed, so calculateResults
\* reads the errors of that render, and the state updates they queue are
\* applied together in the render that follows
EffectRun ==
  /\ pc = "effect"
  /\ errors' = validateInputs(inputs)
  /\ results' = calculateResults(inputs, errors, results)
  /\ isCalculating' = FALSE
  /\ pc' = "idle"
  /\ UNCHANGED <<inputs, savedCalculations, showSavedResults>>
  /\ UNCHANGED callerVars

\* handleInputChange: the field's value replaces that input; the new inputs
\* object re-renders the component and schedules the effect.  Runs end with
\* the last save: no field is edited once MaxSaved entries are saved.
handleInputChange(name, value) ==
  /\ pc = "idle"
  /\ Len(savedCalculations) < MaxSaved
  /\ value # inputs[name]
  /\ inputs' = [inputs EXCEPT ![name] = value]
  /\ pc' = "effect"
  /\ UNCHANGED <<results, errors, isCalculating, savedCalculations,
                 showSavedResults>>
  /\ UNCHANGED callerVars

\* saveCalculation: the Save button is rendered when isCalculating is
\* false.  The id and timestamp of the entry are left out.
saveCalculation ==
  /\ pc = "idle"
  /\ ~isCalculating
  /\ Len(savedCalculations) < MaxSaved
  /\ savedCalculations' =
       <<[inputs |-> inputs, results |-> results]>> \o savedCalculations
  /\ showSavedResults' = TRUE
  /\ UNCHANGED <<inputs, results, errors, isCalculating, pc>>
  /\ UNCHANGED callerVars

\* the Saved Results header button
toggleSavedResults ==
  /\ pc = "idle"
  /\ Len(savedCalculations) > 0
  /\ showSavedResults' = ~showSavedResults
  /\ UNCHANGED <<inputs, results, errors, isCalculating, savedCalculations, pc>>
  /\ UNCHANGED callerVars

UIInit ==
  /\ args = CHOOSE a \in VaryArgSet : a.grade = "8.8" /\ a.diameter = 20
  /\ call = "none"
  /\ ret = Undefined
  /\ firstTensile = Undefined
  /\ ComponentInit

UINext ==
  \/ EffectRun
  \/ \E name \in FieldNames : \E value \in FieldValues[name] :
       handleInputChange(name, value)
  \/ saveCalculation
  \/ toggleSavedResults

SpecUI == UIInit /\ [][UINext]_vars

(***************************************************************************)
(* Measuring Numbers against exact values.                                 *)
(***************************************************************************)

\* the dyadic rational n * 2^e (n >= 0) as a Number
Dyadic(n, e) == FRound(0, BFromInt(n), e, FALSE)

\* the integer n, or the quarters n/4, as a Number, with the sign of n
Quarters(n) == FRound(IF n < 0 THEN 1 ELSE 0, BFromInt(IF n < 0 THEN -n ELSE n), -2, FALSE)

\* relative tolerance 1e-9, as its reciprocal
RelTol == 10^9

\* x is within relative 1e-9 of a real number v >= 0 of which only
\* Nlo / D <= v <= Nhi / D is known (Nlo, Nhi, D naturals, D > 0):
\* (1 - 1e-9) * Nhi / D <= x <= (1 + 1e-9) * Nlo / D
Approx(x, Nlo, Nhi, D) ==
  /\ x.k = "num"
  /\ x.m = <<>> \/ x.s = 0
  /\ LET up  == IF x.e > 0 THEN x.e ELSE 0
         dn  == IF x.e < 0 THEN -x.e ELSE 0
         lhs == BShl(BMul(BMul(x.m, D), BFromInt(RelTol)), up)
         hi  == BShl(BMul(Nlo, BFromInt(RelTol + 1)), dn)
         lo  == BShl(BMul(Nhi, BFromInt(RelTol - 1)), dn)
     IN  BCmp(lhs, hi) <= 0 /\ BCmp(lhs, lo) >= 0

\* pi lies strictly between Math.PI and the next Number above it, so for a
\* natural P: P * PiLo / 2^51 < P * pi < P * PiHi / 2^51
PiLo == MathPI.m

PiHi == BAdd(MathPI.m, <<1>>)

PiScale == BShl(<<1>>, -MathPI.e)

\* x is within relative 1e-9 of P * pi / Q
ApproxPi(x, P, Q) == Approx(x, BMul(P, PiLo), BMul(P, PiHi), BMul(Q, PiScale))

\* a Number x >= 0 in units of 1/scale, rounded to the nearest integer
RoundedAt(x, scale) ==
  LET n == BMul(x.m, BFromInt(2 * scale))
  IN  IF x.e < 0 THEN BShr(BAdd(n, BShl(<<1>>, -x.e)), 1 - x.e)
      ELSE BShr(BAdd(BShl(n, x.e), <<1>>), 1)

FIsZero(x) == x.k = "num" /\ x.m = <<>>

FNonNegative(x) == x.k = "num" /\ (x.m = <<>> \/ x.s = 0)

\* 4000 * kr as the contract gives it
KrNumerator(L) == IF L < 300 THEN 4000 ELSE IF L > 1300 THEN 3000 ELSE 4300 - L

\* fuf of the two supported grades as the contract gives it
FufOf(grade) == IF grade = "4.6" THEN 400 ELSE 830

(***************************************************************************)
(* Properties                                                              *)
(***************************************************************************)

KrReturned == call = "calculateKr"

ShearReturned ==
  call = "calculateBoltShearCapacity" /\ args.grade \in BoltGrades

TensileReturned ==
  call = "calculateBoltTensileCapacity" /\ args.grade \in BoltGrades

\* C1: calculateKr(L) is 1.0 for L < 300, 0.75 for L > 1300 and
\* 1.075 - L/4000 (to relative 1e-9) for 300 <= L <= 1300; at the two break
\* points, which the linear branch handles, it is exactly 1.0 and exactly
\* 0.75, the values of the branches next to them, so there is no jump.
C1_KrPiecewise ==
  KrReturned =>
    LET L == args.threadedLength
        x == ret.v
    IN  /\ L < 300 => x = Num(1)
        /\ L > 1300 => x = Dyadic(3, -2)
        /\ (300 <= L /\ L <= 1300) =>
             Approx(x, BFromInt(4300 - L), BFromInt(4300 - L), BFromInt(4000))
        /\ L = 300 => x = Num(1)
        /\ L = 1300 => x = Dyadic(3, -2)

\* a break point was evaluated, by the linear branch
C1_Witness ==
  /\ KrReturned
  /\ args.threadedLength = 1300
  /\ ret.v = FSub(Lit(1075, 1000), FDiv(Num(1300), Num(4000)))
  /\ ret.v = Dyadic(3, -2)

\* the shear capacity the contract gives, as a multiple P / Q of pi:
\* 0.8 * 0.62 * fuf * kr * (nt * (d-1)^2 + nu * d^2) * (pi / 4) / 1000
ShearP(a) ==
  BMul(BFromInt(8 * 62 * FufOf(a.grade)),
       BMul(BFromInt(KrNumerator(a.threadedLength)),
            BFromInt(a.shearPlanes * (a.diameter - 1) * (a.diameter - 1)
                     + a.unthreadedShearPlanes * a.diameter * a.diameter)))

ShearQ == BMul(BFromInt(10 * 100 * 4000), BFromInt(4 * 1000))

\* C2: for a supported grade calculateBoltShearCapacity returns, to relative
\* 1e-9, 0.8 * 0.62 * fuf * kr * (n_threaded * Ac + n_unthreaded * Ao) / 1000
\* with Ac = pi (d-1)^2 / 4, Ao = pi d^2 / 4, fuf 400 for "4.6" and 830 for
\* "8.8": threaded planes weigh Ac and unthreaded planes Ao.
C2_ShearFormula ==
  ShearReturned =>
    /\ ret.k = "return"
    /\ ApproxPi(ret.v, ShearP(args), ShearQ)

\* an evaluation in which the two kinds of plane differ in number and kr < 1
C2_Witness ==
  /\ ShearReturned
  /\ ret.k = "return"
  /\ args.grade = "4.6"
  /\ args.diameter = 20
  /\ args.threadedLength = 800
  /\ args.shearPlanes = 1
  /\ args.unthreadedShearPlanes = 2

\* the tensile capacity the contract gives, as a multiple P / Q of pi:
\* 0.8 * fuf * (d-1)^2 * (pi / 4) / 1000
TensileP(a) ==
  BFromInt(8 * FufOf(a.grade) * (a.diameter - 1) * (a.diameter - 1))

TensileQ == BFromInt(10 * 4 * 1000)

\* C3: for a supported grade calculateBoltTensileCapacity returns, to
\* relative 1e-9, 0.8 * fuf * pi (d-1)^2 / 4 / 1000, and a caller that keeps
\* grade and diameter gets the very same Number whatever the threaded
\* length and the shear-plane counts are at the time.
C3_TensileFormula ==
  TensileReturned =>
    /\ ret.k = "return"
    /\ ApproxPi(ret.v, TensileP(args), TensileQ)
    /\ firstTensile.args.grade = args.grade
    /\ firstTensile.args.diameter = args.diameter
    /\ firstTensile.out = ret

\* a second evaluation, after length and both counts were changed
C3_Witness ==
  /\ TensileReturned
  /\ ret.k = "return"
  /\ firstTensile.args.threadedLength # args.threadedLength
  /\ firstTensile.args.shearPlanes # args.shearPlanes
  /\ firstTensile.args.unthreadedShearPlanes # args.unthreadedShearPlanes
  /\ args.threadedLength = 800

\* C4: for a grade outside the table {"4.6", "8.8"} the property lookup and
\* both capacity functions fail: each throws (whatever the error is called)
\* and returns no number.
C4_UnknownGradeFails ==
  ( /\ call \in {"BOLT_PROPERTIES", "calculateBoltShearCapacity",
                 "calculateBoltTensileCapacity"}
    /\ args.grade \notin BoltGrades )
  => ret.k = "throw"

Scenario ==
  [grade |-> "8.8", diameter |-> 20, threadedLength |-> 0,
   shearPlanes |-> 1, unthreadedShearPlanes |-> 0]

ScenarioVf == ShearVf(Num(830), Num(20), Num(0), Num(1), Num(0))

\* C5 as amended: for grade "8.8", d = 20, L = 0, one threaded and no
\* unthreaded plane, kr = 1.0, Vf is 145,903.9 N to one decimal and the
\* shear capacity is 116.72 kN to two decimals.
C5_ScenarioShear ==
  (call = "calculateBoltShearCapacity" /\ args = Scenario) =>
    /\ calculateKr(Num(args.threadedLength)) = Num(1)
    /\ RoundedAt(ScenarioVf, 10) = BFromInt(1459039)
    /\ ret.k = "return"
    /\ RoundedAt(ret.v, 100) = BFromInt(11672)

C5_Witness ==
  /\ call = "calculateBoltShearCapacity"
  /\ args = Scenario
  /\ ret.k = "return"
  /\ FNonNegative(ret.v)

\* C5 as stated: Vf is 145,957.9 N and the shear capacity 116.77 kN
C5_AsStated ==
  (call = "calculateBoltShearCapacity" /\ args = Scenario) =>
    /\ calculateKr(Num(args.threadedLength)) = Num(1)
    /\ RoundedAt(ScenarioVf, 10) = BFromInt(1459579)
    /\ ret.k = "return"
    /\ RoundedAt(ret.v, 100) = BFromInt(11677)

ScenarioNtf == TensileNtf(Num(830), Num(20))

\* C6 as amended: for grade "8.8" and d = 20, Ntf = Ac * fuf is 235,328.9 N
\* to one decimal and the tensile capacity is 188.26 kN to two decimals.
C6_ScenarioTensile ==
  ( /\ call = "calculateBoltTensileCapacity"
    /\ args.grade = "8.8"
    /\ args.diameter = 20 ) =>
    /\ RoundedAt(ScenarioNtf, 10) = BFromInt(2353289)
    /\ ret.k = "return"
    /\ RoundedAt(ret.v, 100) = BFromInt(18826)

C6_Witness ==
  /\ call = "calculateBoltTensileCapacity"
  /\ args.grade = "8.8"
  /\ args.diameter = 20
  /\ ret.k = "return"
  /\ ~FIsZero(ret.v)

\* C6 as stated: Ntf is 235,529.6 N and the tensile capacity 188.42 kN
C6_AsStated ==
  ( /\ call = "calculateBoltTensileCapacity"
    /\ args.grade = "8.8"
    /\ args.diameter = 20 ) =>
    /\ RoundedAt(ScenarioNtf, 10) = BFromInt(2355296)
    /\ ret.k = "return"
    /\ RoundedAt(ret.v, 100) = BFromInt(18842)

\* C7 as amended: for a supported grade and non-negative counts the shear
\* capacity is non-negative, and it is zero only if every plane counted has
\* zero area: no threaded plane or Ac = 0 (which d = 1 gives), and no
\* unthreaded plane or Ao = 0 (which d = 0 gives).  With Ac > 0 and Ao > 0,
\* as for every d >= 2, it is zero only if both counts are zero.
C7_ShearNonNegative ==
  ShearReturned =>
    LET areas == calculateAreas(Num(args.diameter))
    IN  /\ ret.k = "return"
        /\ FNonNegative(ret.v)
        /\ FIsZero(ret.v) =>
             /\ args.shearPlanes = 0 \/ FIsZero(areas.Ac)
             /\ args.unthreadedShearPlanes = 0 \/ FIsZero(areas.Ao)
        /\ (FIsZero(ret.v) /\ args.diameter >= 2) =>
             (args.shearPlanes = 0 /\ args.unthreadedShearPlanes = 0)
        /\ FIsZero(areas.Ac) <=> args.diameter = 1
        /\ FIsZero(areas.Ao) <=> args.diameter = 0

\* a zero capacity with a threaded shear plane, at d = 1
C7_Witness ==
  /\ ShearReturned
  /\ ret.k = "return"
  /\ FIsZero(ret.v)
  /\ args.diameter = 1
  /\ args.shearPlanes = 2
  /\ args.unthreadedShearPlanes = 0

\* C7 as stated: non-negative, and zero only if both counts are zero
C7_AsStated ==
  ShearReturned =>
    /\ ret.k = "return"
    /\ FNonNegative(ret.v)
    /\ FIsZero(ret.v) =>
         (args.shearPlanes = 0 /\ args.unthreadedShearPlanes = 0)

\* C8: calculateKr is non-increasing in L and stays within [0.75, 1.0], for
\* negative L too.
C8_KrMonotone ==
  KrReturned =>
    /\ FCmp(ret.v, Dyadic(3, -2)) >= 0
    /\ FCmp(ret.v, Num(1)) <= 0
    /\ \A L2 \in AllLengths :
         args.threadedLength <= L2 =>
           FCmp(ret.v, calculateKr(Num(L2))) >= 0

\* a value strictly inside the range and strictly above the next one
C8_Witness ==
  /\ KrReturned
  /\ args.threadedLength = 800
  /\ FCmp(ret.v, Dyadic(3, -2)) > 0
  /\ FCmp(ret.v, Num(1)) < 0
  /\ FCmp(ret.v, calculateKr(Num(801))) > 0

\* C9: the detailing limits are 2.5 d, min(200, 32 d), 1.75 d, 1.5 d and
\* 1.25 d, whatever the grade and the threaded length; the maximum pitch
\* never exceeds 200; for d = 20 they are 50, 200, 35, 30 and 25.
C9_DetailingLimits ==
  (call = "CalculationDetails" /\ ret.k = "return") =>
    LET d == args.diameter
        v == ret.v
    IN  /\ v.minPitch = Quarters(10 * d)
        /\ v.maxPitch = Quarters(4 * (IF 32 * d < 200 THEN 32 * d ELSE 200))
        /\ v.minEdgeDistanceSheared = Quarters(7 * d)
        /\ v.minEdgeDistanceRolled = Quarters(6 * d)
        /\ v.minEdgeDistanceRolledSection = Quarters(5 * d)
        /\ FCmp(v.maxPitch, Num(200)) <= 0
        /\ d = 20 =>
             /\ v.minPitch = Num(50)
             /\ v.maxPitch = Num(200)
             /\ v.minEdgeDistanceSheared = Num(35)
             /\ v.minEdgeDistanceRolled = Num(30)
             /\ v.minEdgeDistanceRolledSection = Num(25)

\* the limits for d = 20 beside another grade and length than the form's
\* first ones, with the pitch capped
C9_Witness ==
  /\ call = "CalculationDetails"
  /\ ret.k = "return"
  /\ args.diameter = 20
  /\ args.grade = "4.6"
  /\ args.threadedLength = 800
  /\ ret.v.maxPitch = Num(200)

\* what calculateBoltShearCapacity and calculateBoltTensileCapacity give for
\* inputs in
CapacitiesOf(in) ==
  [shearCapacity |->
     calculateBoltShearCapacity(in.boltGrade, Num(in.diameter),
                                Num(in.threadedLength), Num(in.shearPlanes),
                                Num(in.unthreadedShearPlanes)).v,
   tensileCapacity |->
     calculateBoltTensileCapacity(in.boltGrade, Num(in.diameter)).v]

ValidInputs(in) ==
  /\ in.diameter > 0
  /\ in.threadedLength >= 0
  /\ in.shearPlanes >= 0
  /\ in.unthreadedShearPlanes >= 0
  /\ in.boltGrade \in BoltGrades

\* C10: once the effect of the last input change has run, valid inputs are
\* shown with the capacities of those inputs, and every saved entry with
\* valid inputs holds the capacities of the inputs it holds.
C10_ResultsOfCurrentInputs ==
  /\ (pc = "idle" /\ ValidInputs(inputs)) => results = CapacitiesOf(inputs)
  /\ \A i \in 1..Len(savedCalculations) :
       ValidInputs(savedCalculations[i].inputs) =>
         savedCalculations[i].results = CapacitiesOf(savedCalculations[i].inputs)

\* C11: an effect run for inputs that fail a validateInputs rule leaves the
\* results as they were.
C11_InvalidInputsKeepResults ==
  [][(pc = "effect" /\ pc' = "idle" /\ validateInputs(inputs) # {})
       => results' = results]_vars

====
